---- MODULE Spec2Model ----
(***************************************************************************)
(* Model of notebooks/logging_utils.py: the indenting, multi-sink logging  *)
(* facade built on the root logger of Python's logging framework.          *)
(*                                                                         *)
(* State: the root logger (level, filters, handlers), the module           *)
(* singletons (_indent_filter._indent, _use_emme), the stack of open       *)
(* context managers (logging_for_task / indent / function_logging wrapper) *)
(* with the locals each generator holds across its yield, the exception    *)
(* in flight, the records produced by the last step and the result of the  *)
(* last call that finished.                                                *)
(***************************************************************************)
EXTENDS Integers, Sequences, FiniteSets, TLC

\* ---------------------------------------------------------------- bounds
MaxNest == 2      \* deepest nesting of open scopes explored
MaxFiles == 2     \* FileHandlers alive (attached or held by a session) at a time
MaxEmme == 2      \* EmmeHandlers attached at a time

\* ------------------------------------------------------ logging constants
NOTSET == 0
DEBUG == 10
INFO == 20
WARNING == 30
\* The levels the application passes to basic_logging, to logging_for_task
\* (its default) and to add_emme_logging_handler (its default), and the
\* levels of the records it logs
Levels == {DEBUG, WARNING}

TaskLevels == {INFO}

EmmeLevels == {DEBUG}

RecordLevels == {INFO}

INDENT_STR == "  "

\* ------------------------------------------------------------- handlers
\* A handler is [kind, id, level].  kind "stdout" is the module singleton
\* _stream_handler, "stream" a StreamHandler installed by somebody else,
\* "file" a logging.FileHandler, "emme" an EmmeHandler.
_stream_handler(lvl) == [kind |-> "stdout", id |-> 0, level |-> lvl]

ForeignStream == [kind |-> "stream", id |-> 0, level |-> NOTSET]

\* isinstance(h, logging.StreamHandler): FileHandler subclasses StreamHandler
IsStreamHandler(h) == h.kind \in {"stdout", "stream", "file"}

\* isinstance(h, logging.FileHandler)
IsFileHandler(h) == h.kind = "file"

\* h.name: only _stream_handler is given a name
HandlerName(h) == IF h.kind = "stdout" THEN "StdOutHandler" ELSE "None"

Range(s) == {s[i] : i \in DOMAIN s}

\* Two records of the same handler object (setLevel changes its level)
SameHandler(a, b) == a.kind = b.kind /\ a.id = b.id

\* logger.handlers is kept as the set of the handlers attached: the order
\* of the list only decides the order in which the sinks write a record.
\* Logger.addHandler: add unless the object is already attached
AddHandler(hs, h) == IF \E x \in hs : SameHandler(x, h) THEN hs ELSE hs \cup {h}

\* Logger.removeHandler: drop the object when it is attached
RemoveHandler(hs, h) == {x \in hs : ~SameHandler(x, h)}

\* for fh in existing_fh: root_logger.addHandler(fh)
AddAll(hs, more) ==
    hs \cup {h \in more : ~\E x \in hs : SameHandler(x, h)}

FileSinks(hs) == {h \in hs : IsFileHandler(h)}

EmmeSinks(hs) == {h \in hs : h.kind = "emme"}

\* Mutant: _ensure_stdout attaches a console sink on every call
EnsureStdoutAlwaysAdds(hs, lvl) ==
    LET added == hs \cup {_stream_handler(lvl)}
    IN  added \ {h \in added : IsStreamHandler(h) /\ HandlerName(h) # "StdOutHandler"}

\* _ensure_stdout(logger, level)
EnsureStdout(hs, lvl) ==
    LET relevelled == {IF h.kind = "stdout" THEN _stream_handler(lvl) ELSE h : h \in hs}
        added == IF "StdOutHandler" \in {HandlerName(h) : h \in relevelled}
                 THEN relevelled
                 ELSE AddHandler(relevelled, _stream_handler(lvl))
        others == {h \in added : IsStreamHandler(h) /\ HandlerName(h) # "StdOutHandler"}
    IN  added \ others

\* Mutant: _ensure_indenting adds the filter without looking for it first
EnsureIndentingAlwaysAdds(fs) == Append(fs, "_indent_filter")

\* _ensure_indenting(logger)
EnsureIndenting(fs) ==
    IF \E i \in DOMAIN fs : fs[i] = "_indent_filter" THEN fs ELSE Append(fs, "_indent_filter")

\* -------------------------------------------------------- Indent Tracker
\* INDENT_STR * self._indent  (a non-positive count gives the empty string)
IndentStr(d) == [i \in 1..d |-> INDENT_STR]

\* Mutant: decrease_indent sets the level back to zero instead of one down
decrease_indent_resets(d) == 0

\* Mutant: increase_indent adds two levels
increase_indent_twice(d) == d + 2

\* IndentingFilter.increase_indent
increase_indent(d) == d + 1

\* IndentingFilter.decrease_indent
decrease_indent(d) == d - 1

\* ------------------------------------------------- message interpolation
\* A message template is a sequence of tokens: literal text or a {name}
\* replacement field.  A formatted message is a sequence of strings.
Lit(s) == [t |-> "lit", s |-> s]

Key(k) == [t |-> "key", s |-> k]

EmptyMap == [k \in {} |-> ""]

\* format_kwargs_dict or {}   (None and the empty dict are both falsy)
OrEmpty(d) == IF d.given /\ DOMAIN d.dict # {} THEN d.dict ELSE EmptyMap

\* msg.format(**kw) raises KeyError when a field names no key of kw
FormatOK(msg, kw) == \A i \in DOMAIN msg : msg[i].t = "key" => msg[i].s \in DOMAIN kw

\* msg.format(**kw)
Format(msg, kw) == [i \in DOMAIN msg |-> IF msg[i].t = "key" THEN kw[msg[i].s] ELSE msg[i].s]

\* ------------------------------------------------- decorated functions
\* The functions the application decorates with function_logging(msg):
\*   @function_logging("run {x} with {y}")   def g(x, y="7")
\*   @function_logging("go {z}")             def h(x)
Functions ==
    [g |-> [msg |-> <<Lit("run "), Key("x"), Lit(" with "), Key("y")>>,
            params |-> <<"x", "y">>, defaults |-> [y |-> "7"]],
     h |-> [msg |-> <<Lit("go "), Key("z")>>,
            params |-> <<"x">>, defaults |-> EmptyMap]]

\* The calls the application makes: g(x="5"), g("2", "5"), g(), h("2")
Calls ==
    {[fn |-> "g", args |-> <<>>, kwargs |-> [x |-> "5"]],
     [fn |-> "g", args |-> <<"2", "5">>, kwargs |-> EmptyMap],
     [fn |-> "g", args |-> <<>>, kwargs |-> EmptyMap],
     [fn |-> "h", args |-> <<"2">>, kwargs |-> EmptyMap]}

\* The values a function body returns
Results == {"r1", "r2"}

ParamIndex(params, p) == CHOOSE i \in DOMAIN params : params[i] = p

\* inspect.getcallargs raises TypeError: too many positionals, an unknown
\* keyword, a parameter given twice, or a parameter left without a value
CallArgsOK(fn, args, kwargs) ==
    LET params == Functions[fn].params
        defaults == Functions[fn].defaults
    IN  /\ Len(args) <= Len(params)
        /\ \A k \in DOMAIN kwargs : \E i \in DOMAIN params : params[i] = k
        /\ \A i \in DOMAIN params :
             \/ (i <= Len(args)) /\ params[i] \notin DOMAIN kwargs
             \/ (i > Len(args)) /\ params[i] \in (DOMAIN kwargs \cup DOMAIN defaults)

\* inspect.getcallargs(function, *args, **kwargs): every parameter by name,
\* from the positionals, then the keywords, then the defaults
GetCallArgs(fn, args, kwargs) ==
    LET params == Functions[fn].params
        defaults == Functions[fn].defaults
    IN  [p \in Range(params) |->
           IF ParamIndex(params, p) <= Len(args) THEN args[ParamIndex(params, p)]
           ELSE IF p \in DOMAIN kwargs THEN kwargs[p]
           ELSE defaults[p]]

\* The indent(msg, format_kwargs_dict) calls the application makes:
\* indent("block of work"), indent("step {n}", {"n": "2"}), indent("step {n}")
IndentCalls ==
    {[msg |-> <<Lit("block of work")>>, kw |-> [given |-> FALSE, dict |-> EmptyMap]],
     [msg |-> <<Lit("step "), Key("n")>>, kw |-> [given |-> TRUE, dict |-> [n |-> "2"]]],
     [msg |-> <<Lit("step "), Key("n")>>, kw |-> [given |-> FALSE, dict |-> EmptyMap]]}

\* The optional message of logging_for_task
NoMessage == [given |-> FALSE, msg |-> <<>>]

SessionMessages == {NoMessage, [given |-> TRUE, msg |-> <<Lit("task build")>>]}

\* get_output_filename(output_folder, task): folder/{date}_{task}.log
get_output_filename(output_folder, task, now) ==
    <<output_folder, "/", now, "_", task, ".log">>

\* ----------------------------------------------------------- log records
\* One logging call on the root logger.  made: the logger's level admits
\* the record (isEnabledFor); indented: the Indent Tracker's filter ran and
\* set indent_str; sinks: the handlers that wrote the record; logbook: the
\* number of _m.logbook_write calls it caused.  depth_at is the value of
\* _indent when the call was made.
\* Mutant: EmmeHandler.handle does not look at skip_emme
CanWriteIgnoresSkip(h, lvl, skip_emme, indented) ==
    /\ lvl >= h.level
    /\ CASE h.kind \in {"emme", "stream"} -> TRUE
         [] OTHER -> indented

CanWrite(h, lvl, skip_emme, indented) ==
    /\ lvl >= h.level
    /\ CASE h.kind = "emme" -> ~skip_emme          \* EmmeHandler.handle
         [] h.kind = "stream" -> TRUE              \* foreign format, no indent_str
         [] OTHER -> indented                      \* FORMATTER needs %(indent_str)s

\* Mutant: the prefix is computed once, when the filter is created
filter_stale(d) == IndentStr(0)

\* IndentingFilter.filter
filter(d) == IndentStr(d)

LogRecord(lg_level, fs, hs, d, lvl, msg, skip_emme) ==
    LET made == lvl >= lg_level
        indented == made /\ \E i \in DOMAIN fs : fs[i] = "_indent_filter"
        sinks == IF made THEN {h \in hs : CanWrite(h, lvl, skip_emme, indented)}
                 ELSE {}
    IN  [made |-> made, lvl |-> lvl, msg |-> msg, skip_emme |-> skip_emme,
         indented |-> indented,
         indent_str |-> IF indented THEN filter(d) ELSE <<>>,
         depth_at |-> d,
         sinks |-> sinks,
         logbook |-> Cardinality({h \in sinks : h.kind = "emme"})]

\* The module-level logging.info(...) calls logging.basicConfig() first
\* when the root logger has no handler at all: a stderr StreamHandler
BasicConfig(hs) == IF hs = {} THEN {ForeignStream} ELSE hs

\* ------------------------------------------------------------ exceptions
NoExc == "none"

\* ------------------------------------------------------------------ state
VARIABLES
    level,        \* root logger's level
    filters,      \* root logger's filters
    handlers,     \* root logger's handlers
    depth,        \* _indent_filter._indent
    use_emme,     \* _use_emme
    spans,        \* open _m.logbook_trace spans, innermost last
    stack,        \* open scopes, innermost last
    exc,          \* exception propagating, or NoExc
    emitted,      \* records of the logging calls of the last step
    last          \* what the last step called or closed: the call, the scope closed,
                  \* what it handed to its caller (a value or the exception), the
                  \* handlers it closed, the handlers attached before basic_logging

vars == <<level, filters, handlers, depth, use_emme, spans, stack, exc, emitted, last>>

NoFrame == [kind |-> "none"]

NoCall == [fn |-> "none", args |-> <<>>, kwargs |-> EmptyMap]

Step(op) ==
    [op |-> op, call |-> NoCall, frame |-> NoFrame, ret |-> "None", closed |-> {},
     before |-> {}]

\* A step that neither enters nor leaves a scope
Plain == Step("none")

Called(op, c) == [Step(op) EXCEPT !.call = c]

Closed(op, fr, v) == [Step(op) EXCEPT !.frame = fr, !.ret = v]

Init ==
    /\ level = WARNING
    /\ filters = <<>>
    /\ handlers = {}
    /\ depth = 0
    /\ use_emme = FALSE
    /\ spans = <<>>
    /\ stack = <<>>
    /\ exc = NoExc
    /\ emitted = <<>>
    /\ last = Plain

Top == stack[Len(stack)]

Pop(s) == SubSeq(s, 1, Len(s) - 1)

\* Control is in application code: at top level or in the body of a scope
InApp == IF stack = <<>> THEN TRUE ELSE Top.pc = "body"

AppRunning == exc = NoExc /\ InApp

\* Object identity: a new handler is an object distinct from every handler
\* still referenced (attached, or held by an open session)
LiveFiles ==
    FileSinks(handlers)
      \cup UNION {IF stack[i].kind = "session"
                  THEN {stack[i].fh} \cup stack[i].existing_fh ELSE {}
                  : i \in DOMAIN stack}

NewFile == CHOOSE i \in 1..MaxFiles : \A h \in LiveFiles : h.id # i

NewEmme == CHOOSE i \in 1..MaxEmme : \A h \in EmmeSinks(handlers) : h.id # i

Raise(e, step) ==
    /\ exc' = e
    /\ emitted' = <<>>
    /\ last' = step

\* ------------------------------------------------------- Sink Registry
\* basic_logging(level)
basic_logging(lvl) ==
    /\ AppRunning
    /\ level' = lvl
    /\ handlers' = EnsureStdout(handlers, lvl)
    /\ filters' = EnsureIndenting(filters)
    /\ emitted' = <<>>
    /\ last' = [Step("basic_logging") EXCEPT !.before = handlers]
    /\ UNCHANGED <<depth, use_emme, spans, stack, exc>>

\* add_emme_logging_handler(level): a new EmmeHandler on every call
add_emme_logging_handler(lvl) ==
    /\ AppRunning
    /\ Cardinality(EmmeSinks(handlers)) < MaxEmme
    /\ handlers' = AddHandler(handlers, [kind |-> "emme", id |-> NewEmme, level |-> lvl])
    /\ use_emme' = TRUE
    /\ emitted' = <<>>
    /\ last' = Plain
    /\ UNCHANGED <<level, filters, depth, spans, stack, exc>>

\* The application's own logging.log(lvl, "inside block") in a block or at
\* top level (the module docstring's examples)
AppLog(lvl) ==
    /\ AppRunning
    /\ handlers' = BasicConfig(handlers)
    /\ emitted' = <<LogRecord(level, filters, handlers', depth, lvl, <<"inside block">>, FALSE)>>
    /\ last' = Plain
    /\ UNCHANGED <<level, filters, depth, use_emme, spans,
                   stack, exc>>

\* ---------------------------------------------------------- Indent Scope
\* Mutant: indent() logs its message after increase_indent()
EntryRecordAfterIncrease(hs, d, formatted) ==
    LogRecord(level, filters, hs, d + 1, INFO, formatted, TRUE)

\* The record indent() logs for its message: logging.info(formatted_msg,
\* extra={"skip_emme": True}), issued before increase_indent()
EntryRecord(hs, d, formatted) == LogRecord(level, filters, hs, d, INFO, formatted, TRUE)

\* Mutant: a lenient formatter that leaves an unresolved field as its name
\* instead of raising
FormatLenient(msg, kw) ==
    [i \in DOMAIN msg |->
       IF msg[i].t = "key" /\ msg[i].s \in DOMAIN kw THEN kw[msg[i].s] ELSE msg[i].s]

\* Mutant: indent() formats its message leniently, so no call is refused
EnterIndentLenient(msg, kw, owner, base, step) ==
    LET formatted == FormatLenient(msg, kw)
        hs == BasicConfig(handlers)
    IN  /\ handlers' = hs
        /\ emitted' = <<EntryRecord(hs, depth, formatted)>>
        /\ depth' = increase_indent(depth)
        /\ stack' = Append(base, [kind |-> "indent", owner |-> owner, pc |-> "try",
                                  msg |-> formatted, span |-> FALSE, d0 |-> depth,
                                  ran |-> 0, result |-> "None"])
        /\ last' = step
        /\ UNCHANGED exc

\* Mutant: indent() increases the depth before it formats its message
EnterIndentIncreasesFirst(msg, kw, owner, base, step) ==
    IF ~FormatOK(msg, kw)
    THEN /\ Raise("KeyError", step)
         /\ depth' = increase_indent(depth)
         /\ UNCHANGED <<handlers, stack>>
    ELSE LET formatted == Format(msg, kw)
             hs == BasicConfig(handlers)
         IN  /\ handlers' = hs
             /\ emitted' = <<EntryRecord(hs, depth, formatted)>>
             /\ depth' = increase_indent(depth)
             /\ stack' = Append(base, [kind |-> "indent", owner |-> owner, pc |-> "try",
                                       msg |-> formatted, span |-> FALSE, d0 |-> depth,
                                       ran |-> 0, result |-> "None"])
             /\ last' = step
             /\ UNCHANGED exc

\* indent(msg, format_kwargs_dict) up to the try: format, log, increase.
\* base is the stack the new scope is opened on.
EnterIndent(msg, kw, owner, base, step) ==
    IF ~FormatOK(msg, kw)
    THEN /\ Raise("KeyError", step)
         /\ UNCHANGED <<handlers, depth, stack>>
    ELSE LET formatted == Format(msg, kw)
             hs == BasicConfig(handlers)
         IN  /\ handlers' = hs
             /\ emitted' = <<EntryRecord(hs, depth, formatted)>>
             /\ depth' = increase_indent(depth)
             /\ stack' = Append(base, [kind |-> "indent", owner |-> owner, pc |-> "try",
                                       msg |-> formatted, span |-> FALSE, d0 |-> depth,
                                       ran |-> 0, result |-> "None"])
             /\ last' = step
             /\ UNCHANGED exc

\* with indent(msg, format_kwargs_dict): called by the application
indent(c) ==
    /\ AppRunning
    /\ Len(stack) < MaxNest
    /\ EnterIndent(c.msg, OrEmpty(c.kw), "app", stack,
                   Called("indent", [fn |-> "indent", args |-> <<c>>, kwargs |-> EmptyMap]))
    /\ UNCHANGED <<level, filters, use_emme, spans>>

InTry == exc = NoExc /\ stack # <<>> /\ Top.kind = "indent" /\ Top.pc = "try"

\* Mutant: indent() opens a logbook span whether or not _use_emme is set
IndentYieldAlwaysTraces ==
    /\ InTry
    /\ spans' = Append(spans, Top.msg)
    /\ stack' = [stack EXCEPT ![Len(stack)] =
                   [@ EXCEPT !.pc = "body", !.span = TRUE,
                             !.ran = IF Top.owner = "function" THEN @ + 1 ELSE @]]
    /\ emitted' = <<>>
    /\ last' = Plain
    /\ UNCHANGED <<level, filters, handlers, depth, use_emme,
                   exc>>

\* try: if _use_emme: with _m.logbook_trace(formatted_msg): yield / else: yield
\* The wrapped block (or the decorated function's body) starts.
IndentYield ==
    /\ InTry
    /\ spans' = IF use_emme THEN Append(spans, Top.msg) ELSE spans
    /\ stack' = [stack EXCEPT ![Len(stack)] =
                   [@ EXCEPT !.pc = "body", !.span = use_emme,
                             !.ran = IF Top.owner = "function" THEN @ + 1 ELSE @]]
    /\ emitted' = <<>>
    /\ last' = Plain
    /\ UNCHANGED <<level, filters, handlers, depth, use_emme,
                   exc>>

\* _m.logbook_trace(formatted_msg) fails to open the span (host API error)
IndentSpanOpenFails ==
    /\ InTry
    /\ use_emme
    /\ Raise("HostError", Plain)
    /\ UNCHANGED <<level, filters, handlers, depth, use_emme, spans, stack>>

\* Mutant: no try/finally, the decrease runs only when the block ends normally
FinallyOnlyOnSuccess(d, failing) == IF failing THEN d ELSE decrease_indent(d)

\* finally: _indent_filter.decrease_indent(); failing tells whether an
\* exception is leaving the try block
Finally(d, failing) == decrease_indent(d)

InBody(owners) ==
    /\ exc = NoExc /\ stack # <<>>
    /\ Top.kind = "indent" /\ Top.pc = "body" /\ Top.owner \in owners

\* Mutant: the wrapper calls the function and drops its result
WrapperDropsResult(v) == "None"

\* What the wrapper hands back: return function(*args, **kwargs)
WrapperReturn(v) == v

\* The stack after its innermost indent scope is left; a session that
\* opened the scope for its message resumes after its "with indent" block
AfterIndent(s) ==
    LET rest == Pop(s)
    IN  IF s[Len(s)].owner = "session"
        THEN [rest EXCEPT ![Len(rest)] = [@ EXCEPT !.pc = "cleanup"]]
        ELSE rest

\* The with block of indent ends normally: the span is closed, finally runs
LeaveIndent(v, op) ==
    /\ spans' = IF Top.span THEN Pop(spans) ELSE spans
    /\ depth' = Finally(depth, FALSE)
    /\ stack' = AfterIndent(stack)
    /\ emitted' = <<>>
    /\ last' = Closed(op, [Top EXCEPT !.result = v],
                       IF Top.owner = "function" THEN WrapperReturn(v) ELSE "None")
    /\ UNCHANGED <<level, filters, handlers, use_emme,
                   exc>>

\* The block wrapped by indent() (the application's or a session's) ends
IndentExit ==
    /\ InBody({"app", "session"})
    /\ LeaveIndent("None", "indent_exit")

\* The body of a function wrapped by function_logging returns v
FunctionReturn(v) ==
    /\ InBody({"function"})
    /\ LeaveIndent(v, "function_return")

\* The block ends normally and closing the logbook span fails: the
\* exception leaves the try block, finally runs
IndentSpanCloseFails ==
    /\ InBody({"app", "session", "function"})
    /\ Top.span
    /\ spans' = Pop(spans)
    /\ depth' = Finally(depth, TRUE)
    /\ stack' = Pop(stack)
    /\ exc' = "HostError"
    /\ emitted' = <<>>
    /\ last' = Closed("span_close_fails", Top, "None")
    /\ UNCHANGED <<level, filters, handlers, use_emme>>

\* The wrapped work raises
Fail ==
    /\ AppRunning
    /\ stack # <<>>
    /\ Raise("WorkError", Plain)
    /\ UNCHANGED <<level, filters, handlers, depth, use_emme, spans, stack>>

\* An exception leaves an indent scope: the span's with block is left and
\* finally runs
UnwindIndent ==
    /\ exc # NoExc /\ stack # <<>> /\ Top.kind = "indent"
    /\ spans' = IF Top.span THEN Pop(spans) ELSE spans
    /\ depth' = Finally(depth, TRUE)
    /\ stack' = Pop(stack)
    /\ emitted' = <<>>
    /\ last' = Closed("indent_raise", Top, exc)
    /\ UNCHANGED <<level, filters, handlers, use_emme,
                   exc>>

\* The application catches the exception (try/except around a with block
\* or a call, or the interpreter's top level)
Catch ==
    /\ exc # NoExc
    /\ InApp
    /\ exc' = NoExc
    /\ emitted' = <<>>
    /\ last' = Plain
    /\ UNCHANGED <<level, filters, handlers, depth, use_emme, spans, stack>>

\* ---------------------------------------------- Function Decoration Helper
\* wrapper(*args, **kwargs) of function_logging(msg)(function), up to the
\* try of indent
function_logging(c) ==
    /\ AppRunning
    /\ Len(stack) < MaxNest
    /\ IF ~CallArgsOK(c.fn, c.args, c.kwargs)
       THEN /\ Raise("TypeError", Called("call", c))
            /\ UNCHANGED <<handlers, depth, stack>>
       ELSE EnterIndent(Functions[c.fn].msg, GetCallArgs(c.fn, c.args, c.kwargs),
                        "function", stack, Called("call", c))
    /\ UNCHANGED <<level, filters, use_emme, spans>>

\* -------------------------------------------------- Task Logging Session
OutputFolder == "/tmp/log"

Tasks == {"build"}

Now == "2024-01-02_030405"

\* previous_level = root_logger.level, read after root_logger.setLevel(level)
PreviousLevel(before, requested) == requested

\* Mutant: the session announces the redirection after it has swapped the
\* file handlers
logging_for_task_announces_late(task, m, lvl) ==
    /\ AppRunning
    /\ Len(stack) + (IF m.given THEN 2 ELSE 1) <= MaxNest
    /\ Cardinality(LiveFiles) < MaxFiles
    /\ LET output_filename == get_output_filename(OutputFolder, task, Now)
           fs == EnsureIndenting(filters)
           previous_level == PreviousLevel(level, lvl)
           existing_fh == {e \in handlers : IsFileHandler(e)}
           kept == handlers \ existing_fh
           fh == [kind |-> "file", id |-> NewFile, level |-> lvl]
           swapped == AddHandler(kept, fh)
           rec1 == LogRecord(lvl, fs, swapped, depth, INFO,
                             <<"Redirecting file based logging:">>, FALSE)
           rec2 == LogRecord(lvl, fs, swapped, depth, INFO,
                             <<" -> ">> \o output_filename, FALSE)
       IN  /\ filters' = fs
           /\ level' = lvl
           /\ emitted' = <<rec1, rec2>>
           /\ handlers' = swapped
           /\ stack' = Append(stack,
                  [kind |-> "session", pc |-> IF m.given THEN "enter_indent" ELSE "body",
                   fh |-> fh, existing_fh |-> existing_fh,
                   previous_level |-> previous_level, message |-> m, l0 |-> level])
    /\ last' = Step("logging_for_task")
    /\ UNCHANGED <<depth, use_emme, spans, exc>>

\* logging_for_task(output_folder, task_name, message, level) up to the
\* yield (or to its "with indent(message)")
logging_for_task(task, m, lvl) ==
    /\ AppRunning
    /\ Len(stack) + (IF m.given THEN 2 ELSE 1) <= MaxNest
    /\ Cardinality(LiveFiles) < MaxFiles
    /\ LET output_filename == get_output_filename(OutputFolder, task, Now)
           fs == EnsureIndenting(filters)
           rec1 == LogRecord(lvl, fs, handlers, depth, INFO,
                             <<"Redirecting file based logging:">>, FALSE)
           rec2 == LogRecord(lvl, fs, handlers, depth, INFO,
                             <<" -> ">> \o output_filename, FALSE)
           previous_level == PreviousLevel(level, lvl)
           existing_fh == {e \in handlers : IsFileHandler(e)}
           kept == handlers \ existing_fh
           fh == [kind |-> "file", id |-> NewFile, level |-> lvl]
       IN  /\ filters' = fs
           /\ level' = lvl
           /\ emitted' = <<rec1, rec2>>
           /\ handlers' = AddHandler(kept, fh)
           /\ stack' = Append(stack,
                  [kind |-> "session", pc |-> IF m.given THEN "enter_indent" ELSE "body",
                   fh |-> fh, existing_fh |-> existing_fh,
                   previous_level |-> previous_level, message |-> m, l0 |-> level])
    /\ last' = Step("logging_for_task")
    /\ UNCHANGED <<depth, use_emme, spans, exc>>

\* if message is not None: with indent(message): yield
SessionIndent ==
    /\ exc = NoExc /\ stack # <<>>
    /\ Top.kind = "session" /\ Top.pc = "enter_indent"
    /\ EnterIndent(Top.message.msg, EmptyMap, "session",
                   [stack EXCEPT ![Len(stack)] = [@ EXCEPT !.pc = "in_indent"]],
                   Step("session_indent"))
    /\ UNCHANGED <<level, filters, use_emme, spans>>

\* After the yield: remove and close the session's handler, set the level
\* back, re-add the handlers removed at the start, startfile (a no-op)
SessionExit ==
    /\ exc = NoExc /\ stack # <<>>
    /\ Top.kind = "session"
    /\ Top.pc \in {"cleanup", "body"}
    /\ handlers' = AddAll(RemoveHandler(handlers, Top.fh), Top.existing_fh)
    /\ level' = Top.previous_level
    /\ stack' = Pop(stack)
    /\ emitted' = <<>>
    /\ last' = [Closed("session_exit", Top, "None") EXCEPT !.closed = {Top.fh}]
    /\ UNCHANGED <<filters, depth, use_emme, spans, exc>>

\* An exception reaches the generator of logging_for_task at its yield:
\* nothing after the yield runs (the generator has no try/finally)
UnwindSession ==
    /\ exc # NoExc /\ stack # <<>> /\ Top.kind = "session"
    /\ stack' = Pop(stack)
    /\ emitted' = <<>>
    /\ last' = Closed("session_raise", Top, "None")
    /\ UNCHANGED <<level, filters, handlers, depth, use_emme, spans, exc>>

\* ------------------------------------------------------------------ system
Next ==
    \/ \E lvl \in Levels : basic_logging(lvl)
    \/ \E lvl \in EmmeLevels : add_emme_logging_handler(lvl)
    \/ \E lvl \in RecordLevels : AppLog(lvl)
    \/ \E c \in IndentCalls : indent(c)
    \/ IndentYield
    \/ IndentSpanOpenFails
    \/ IndentExit
    \/ \E v \in Results : FunctionReturn(v)
    \/ IndentSpanCloseFails
    \/ Fail
    \/ UnwindIndent
    \/ Catch
    \/ \E c \in Calls : function_logging(c)
    \/ \E t \in Tasks, m \in SessionMessages, lvl \in TaskLevels : logging_for_task(t, m, lvl)
    \/ SessionIndent
    \/ SessionExit
    \/ UnwindSession

Spec == Init /\ [][Next]_vars

\* ------------------------------------------------------------ properties
NumIndent(s) == Cardinality({i \in DOMAIN s : s[i].kind = "indent"})

\* d repetitions of the indent unit
Copies(d) == [i \in 1..d |-> "  "]

Attached(h) == \E x \in handlers : SameHandler(x, h)

Ids(hs) == {<<h.kind, h.id>> : h \in hs}

SessionOpen == \E i \in DOMAIN stack : stack[i].kind = "session"

InnermostSession ==
    stack[CHOOSE i \in DOMAIN stack :
            /\ stack[i].kind = "session"
            /\ \A j \in DOMAIN stack : stack[j].kind = "session" => j <= i]

\* C1: when the work wrapped by a Task Logging Session fails, on exit the
\* session's own File Sink is detached and the File Sinks attached are
\* exactly those attached before the session started.
C1_FailedSessionRestoresSinks ==
    last.op = "session_raise" =>
        /\ ~Attached(last.frame.fh)
        /\ FileSinks(handlers) = last.frame.existing_fh

\* C2: when an exception leaves an Indent Scope (the wrapped work failed, or
\* opening or closing the logbook span failed), the depth is back at its
\* value before the scope was entered and the exception goes on to the
\* caller.
C2_FailedScopeRestoresDepth ==
    last.op \in {"indent_raise", "span_close_fails"} =>
        /\ depth = last.frame.d0
        /\ exc # NoExc

C2_Witness ==
    /\ last.op = "indent_raise"
    /\ last.frame.pc = "body"
    /\ last.frame.span
    /\ last.frame.d0 = 1
    /\ exc = "WorkError"

\* C3: with no exception in flight, the depth is the starting depth (0) plus
\* the number of Indent Scopes open, each scope entered at nesting level k
\* found the depth at k - 1, and a scope that exits normally leaves the
\* depth as it found it; so N nested scopes that all exit leave it at 0.
C3_NestedScopesNetZero ==
    exc = NoExc =>
        /\ depth = NumIndent(stack)
        /\ \A i \in DOMAIN stack :
             stack[i].kind = "indent" => stack[i].d0 = NumIndent(SubSeq(stack, 1, i - 1))
        /\ last.op \in {"indent_exit", "function_return"} => depth = last.frame.d0

C3_Witness ==
    /\ last.op = "indent_exit"
    /\ last.frame.d0 = 1
    /\ Len(stack) = 1
    /\ stack[1].kind = "indent"
    /\ exc = NoExc

\* C4: a Task Logging Session records the logger's level as it was before
\* the session set the requested level, and on exit the logger's level is
\* that pre-session level.
C4_SessionRestoresLevel ==
    last.op = "session_exit" =>
        /\ last.frame.previous_level = last.frame.l0
        /\ level = last.frame.l0

\* C5: while a Task Logging Session is open exactly one File Sink is
\* attached, that of the innermost open session; after a session exits
\* normally its File Sink is detached and closed and the File Sinks attached
\* are those attached before it started.
C5_OneFileSinkPerSession ==
    /\ SessionOpen => FileSinks(handlers) = {InnermostSession.fh}
    /\ last.op = "session_exit" =>
         /\ ~Attached(last.frame.fh)
         /\ last.closed = {last.frame.fh}
         /\ FileSinks(handlers) = last.frame.existing_fh

\* C6: after basic_logging exactly one console sink, the one named
\* StdOutHandler, is attached, whatever was attached before; a call made
\* when the handlers are as an earlier call left them attaches and detaches
\* nothing.
C6_ConsoleSinkIdempotent ==
    /\ last.op = "basic_logging" =>
         /\ Cardinality({h \in handlers : h.kind \in {"stdout", "stream"}}) = 1
         /\ Cardinality({h \in handlers : HandlerName(h) = "StdOutHandler"}) = 1
         /\ (/\ \E h \in last.before : h.kind = "stdout"
             /\ ~\E h \in last.before : h.kind \in {"stream", "file"})
            => Ids(handlers) = Ids(last.before)
    /\ (\E h \in handlers : h.kind = "stdout") =>
         Cardinality({h \in handlers : h.kind \in {"stdout", "stream"}}) = 1

C6_Witness ==
    /\ last.op = "basic_logging"
    /\ \E h \in last.before : h.kind = "stdout"
    /\ \E h \in last.before : h.kind = "emme"
    /\ Ids(handlers) = Ids(last.before)
    /\ handlers # last.before

\* C7: after two calls of add_emme_logging_handler exactly one External
\* Logbook Sink is attached, so a record is written to the logbook at most
\* once.
C7_LogbookSinkIdempotent ==
    /\ Cardinality(EmmeSinks(handlers)) <= 1
    /\ \A i \in DOMAIN emitted : emitted[i].logbook <= 1

\* C8: entering an Indent Scope logs the interpolated message as one INFO
\* record at the depth in force before the scope; the depth is one greater
\* for every record logged by the wrapped block; the depth is back at the
\* prior value when the block ends.
C8_EntryRecordBeforeIncrease ==
    /\ (exc = NoExc /\ stack # <<>> /\ Top.kind = "indent" /\ Top.pc = "try") =>
         /\ Len(emitted) = 1
         /\ emitted[1].lvl = INFO
         /\ emitted[1].skip_emme
         /\ emitted[1].msg = Top.msg
         /\ emitted[1].made = (level <= INFO)
         /\ emitted[1].depth_at = Top.d0
         /\ emitted[1].indented => emitted[1].indent_str = Copies(Top.d0)
         /\ depth = Top.d0 + 1
         /\ last.op = "indent" => Top.msg \in {<<"step ", "2">>, <<"block of work">>}
    /\ (exc = NoExc /\ stack # <<>> /\ Top.kind = "indent" /\ Top.pc = "body") =>
         \A i \in DOMAIN emitted :
            /\ emitted[i].depth_at = Top.d0 + 1
            /\ emitted[i].indented => emitted[i].indent_str = Copies(Top.d0 + 1)
    /\ last.op = "indent_exit" => depth = last.frame.d0

C8_Witness ==
    /\ exc = NoExc /\ stack # <<>> /\ Top.kind = "indent" /\ Top.pc = "try"
    /\ last.op = "indent"
    /\ Top.msg = <<"step ", "2">>
    /\ Top.d0 = 1
    /\ emitted[1].indented
    /\ emitted[1].indent_str = <<"  ">>

\* The message a call of g is to log: "run {x} with {y}" with x and y as the
\* call binds them (y defaults to "7")
ExpectedRun(c) ==
    LET x == IF Len(c.args) >= 1 THEN c.args[1] ELSE c.kwargs["x"]
        y == IF Len(c.args) >= 2 THEN c.args[2]
             ELSE IF "y" \in DOMAIN c.kwargs THEN c.kwargs["y"] ELSE "7"
    IN  <<"run ", x, " with ", y>>

\* C9: a call of a function wrapped by function_logging logs the template
\* interpolated with the bound arguments (defaults included) before the body
\* runs, runs the body once inside an Indent Scope, returns the body's
\* result or lets its exception through unchanged, and leaves the depth as
\* the caller had it.
C9_FunctionLogging ==
    /\ (last.op = "call" /\ exc = NoExc) =>
         /\ Top.kind = "indent" /\ Top.owner = "function"
         /\ Top.ran = 0
         /\ last.call.fn = "g"
         /\ Len(emitted) = 1
         /\ emitted[1].msg = ExpectedRun(last.call)
    /\ (stack # <<>> /\ Top.kind = "indent" /\ Top.owner = "function" /\ Top.pc = "body") =>
         Top.ran = 1
    /\ last.op = "function_return" =>
         /\ last.frame.ran = 1
         /\ last.ret = last.frame.result
         /\ last.ret \in Results
         /\ depth = last.frame.d0
         /\ exc = NoExc
    /\ (last.op \in {"indent_raise", "span_close_fails"} /\ last.frame.owner = "function") =>
         /\ depth = last.frame.d0
         /\ exc # NoExc
         /\ last.op = "indent_raise" => exc = last.ret

C9_Witness ==
    /\ last.op = "function_return"
    /\ last.ret = "r2"
    /\ last.frame.msg = <<"run ", "5", " with ", "7">>
    /\ last.frame.d0 = 1
    /\ depth = 1

\* C10: a record formatted while the depth is d carries exactly d
\* repetitions of the indent unit, computed from the depth at that record
\* (the entry record of a scope is logged before the scope's increase).
C10_PrefixIsDepth ==
    \A i \in DOMAIN emitted :
        LET d == IF emitted[i].skip_emme THEN depth - 1 ELSE depth
        IN  emitted[i].indented =>
              /\ Len(emitted[i].indent_str) = d
              /\ \A j \in 1..d : emitted[i].indent_str[j] = "  "

C10_Witness ==
    /\ Len(emitted) = 1
    /\ ~emitted[1].skip_emme
    /\ emitted[1].indented
    /\ depth = 2
    /\ emitted[1].indent_str = <<"  ", "  ">>

\* The indent call whose template names a field that nothing binds:
\* indent("step {n}")
UnboundIndentCall == [msg |-> <<Lit("step "), Key("n")>>, kw |-> [given |-> FALSE, dict |-> EmptyMap]]

\* C11: a template with a field that no bound argument resolves is accepted
\* when the function is decorated (h is among the decorated functions and
\* is called) and raises KeyError at every call of the wrapped function and
\* at every entry of indent with it; the KeyError reaches the caller.  The
\* calls whose templates resolve raise nothing.
C11_UnboundFieldFailsAtCall ==
    /\ (last.op = "call" /\ last.call.fn = "h") => exc = "KeyError"
    /\ (last.op = "indent" /\ last.call.args[1] = UnboundIndentCall) => exc = "KeyError"
    /\ (last.op = "indent" /\ last.call.args[1] # UnboundIndentCall) => exc = NoExc
    /\ (last.op = "call" /\ last.call.fn = "g") => exc \in {NoExc, "TypeError"}

C11_Witness ==
    /\ last.op = "call"
    /\ last.call.fn = "h"
    /\ exc = "KeyError"
    /\ Len(stack) = 1
    /\ Top.kind = "indent" /\ Top.owner = "function"

\* The open Indent Scopes that opened a logbook span, outermost first
SpanFrames == SelectSeq(stack, LAMBDA f : f.kind = "indent" /\ f.span)

\* C12: the entry record of an Indent Scope is tagged skip_emme and no
\* EmmeHandler writes it to the logbook; every other record the logger made
\* is written once by each attached EmmeHandler whose level admits it; the
\* entry message is in the logbook only as the name of the span its scope
\* opened, and a scope opens a span only with _use_emme set.
C12_EntryRecordSkipsLogbook ==
    /\ (exc = NoExc /\ stack # <<>> /\ Top.kind = "indent" /\ Top.pc = "try") =>
         /\ emitted[1].skip_emme
         /\ emitted[1].logbook = 0
         /\ ~\E h \in emitted[1].sinks : h.kind = "emme"
    /\ \A i \in DOMAIN emitted :
         (emitted[i].made /\ ~emitted[i].skip_emme) =>
            /\ emitted[i].logbook =
                 Cardinality({h \in EmmeSinks(handlers) : emitted[i].lvl >= h.level})
            /\ \A h \in EmmeSinks(handlers) :
                 emitted[i].lvl >= h.level => h \in emitted[i].sinks
    /\ Len(spans) = Len(SpanFrames)
    /\ \A k \in DOMAIN spans : spans[k] = SpanFrames[k].msg
    /\ spans # <<>> => use_emme

C12_Witness ==
    /\ exc = NoExc /\ stack # <<>> /\ Top.kind = "indent" /\ Top.pc = "try"
    /\ use_emme
    /\ Cardinality(EmmeSinks(handlers)) = 2
    /\ emitted[1].made
    /\ emitted[1].sinks # {}
    /\ emitted[1].logbook = 0
    /\ spans = <<<<"block of work">>>>

\* The wrapped block of the innermost scope starts in this step
BlockStarts ==
    /\ stack # <<>> /\ Top.kind = "indent" /\ Top.pc = "try"
    /\ Len(stack') = Len(stack)
    /\ stack'[Len(stack')].pc = "body"

\* The innermost Indent Scope is left in this step (normally or by an
\* exception)
ScopeLeft ==
    /\ stack # <<>> /\ Top.kind = "indent"
    /\ last'.op \in {"indent_exit", "function_return", "indent_raise", "span_close_fails"}

\* C13: a scope whose block starts has opened a span named by its message
\* exactly when _use_emme was set at that moment; a scope that is left
\* closes the span it opened, which is the innermost open span; _use_emme
\* is never cleared; the open spans are those of the open scopes that
\* opened one, in nesting order, so they are never more than the depth,
\* also when _use_emme became set inside open scopes.
C13_SpansFollowScopes ==
    /\ [](/\ Len(spans) = Len(SpanFrames)
          /\ \A k \in DOMAIN spans : spans[k] = SpanFrames[k].msg
          /\ Len(spans) <= depth
          /\ Len(spans) <= NumIndent(stack))
    /\ [][/\ use_emme => use_emme'
          /\ BlockStarts =>
               /\ stack'[Len(stack')].span = use_emme
               /\ spans' = IF use_emme THEN Append(spans, Top.msg) ELSE spans
          /\ ScopeLeft =>
               /\ last'.frame.span = Top.span
               /\ spans' = IF Top.span THEN Pop(spans) ELSE spans
               /\ Top.span => spans[Len(spans)] = Top.msg
          /\ Len(spans') < Len(spans) => ScopeLeft /\ Top.span
          /\ Len(spans') > Len(spans) => BlockStarts /\ use_emme]_vars

C13_Witness ==
    /\ Len(stack) = 2
    /\ stack[1].kind = "indent" /\ ~stack[1].span /\ stack[1].pc = "body"
    /\ stack[2].kind = "indent" /\ stack[2].span /\ stack[2].pc = "body"
    /\ use_emme
    /\ spans = <<stack[2].msg>>
    /\ depth = 2

\* _indent_filter._indent after construction
InitialDepth == 0

\* C14: in every state, whatever the nesting of indent blocks, decorated
\* functions and sessions with a message, and whether or not an exception
\* is passing through them, the depth is not negative and is the initial
\* depth plus the number of Indent Scopes open.
C14_DepthCountsOpenScopes ==
    /\ depth >= 0
    /\ depth = InitialDepth + NumIndent(stack)

C14_Witness ==
    /\ exc = "WorkError"
    /\ Len(stack) = 2
    /\ stack[1].kind = "session" /\ stack[1].message.given
    /\ stack[2].kind = "indent" /\ stack[2].owner = "session"
    /\ depth = 1

\* C15: the two records that announce the redirection are logged while the
\* File Sinks attached before the session are still attached and the
\* session's own is not yet: the File Sinks that write them are exactly the
\* earlier ones, never the session's; the record of the optional message is
\* logged once the session's File Sink is attached and is written to it.
C15_AnnouncementsBeforeRedirection ==
    /\ last.op = "logging_for_task" =>
         /\ Len(emitted) = 2
         /\ emitted[1].msg = <<"Redirecting file based logging:">>
         /\ emitted[2].msg = <<" -> ", "/tmp/log", "/", "2024-01-02_030405", "_", "build", ".log">>
         /\ \A i \in 1..2 :
              /\ emitted[i].made
              /\ FileSinks(emitted[i].sinks) = Top.existing_fh
              /\ ~\E h \in emitted[i].sinks : SameHandler(h, Top.fh)
         /\ FileSinks(handlers) = {Top.fh}
    /\ last.op = "session_indent" =>
         /\ exc = NoExc
         /\ stack[Len(stack) - 1].kind = "session"
         /\ Len(emitted) = 1
         /\ emitted[1].msg = <<"task build">>
         /\ emitted[1].made
         /\ FileSinks(emitted[1].sinks) = {stack[Len(stack) - 1].fh}
         /\ FileSinks(handlers) = {stack[Len(stack) - 1].fh}

C15_Witness ==
    /\ last.op = "logging_for_task"
    /\ Len(stack) = 2
    /\ stack[1].kind = "session"
    /\ Top.existing_fh = {stack[1].fh}
    /\ stack[1].fh \in emitted[1].sinks
    /\ stack[1].fh \in emitted[2].sinks
    /\ Top.fh \notin emitted[2].sinks

\* How many times the Indent Tracker is in the logger's filter chain
TrackerCount == Cardinality({i \in DOMAIN filters : filters[i] = "_indent_filter"})

\* C16: the Indent Tracker is never in the logger's filter chain more than
\* once, and after every basic_logging call and every session start, however
\* many came before, it is there exactly once; a record that carries a
\* prefix carries the one computed from the depth at that record.
C16_TrackerAttachedOnce ==
    /\ TrackerCount <= 1
    /\ Len(filters) = TrackerCount
    /\ last.op \in {"basic_logging", "logging_for_task"} => TrackerCount = 1
    /\ (SessionOpen \/ \E h \in handlers : h.kind \in {"stdout", "file"}) => TrackerCount = 1
    /\ \A i \in DOMAIN emitted :
         emitted[i].indented =>
            /\ TrackerCount = 1
            /\ emitted[i].indent_str = Copies(emitted[i].depth_at)

C16_Witness ==
    /\ last.op = "basic_logging"
    /\ \E h \in last.before : h.kind = "stdout"
    /\ Len(stack) = 2
    /\ stack[1].kind = "session" /\ stack[2].kind = "session"
    /\ filters = <<"_indent_filter">>

\* C17: basic_logging detaches no File Sink and no External Logbook Sink:
\* every handler it detaches is a console/stream sink other than
\* StdOutHandler; the File Sink of every open session that was attached
\* before the call is attached after it, and so are the File Sinks that
\* were attached before.
C17_BasicLoggingKeepsFileSinks ==
    last.op = "basic_logging" =>
        /\ \A h \in last.before : h.kind \in {"file", "emme"} => Attached(h)
        /\ \A h \in last.before : ~Attached(h) => h.kind = "stream"
        /\ \A i \in DOMAIN stack :
             (stack[i].kind = "session" /\ stack[i].fh \in last.before) =>
                Attached(stack[i].fh)

\* C18: a step in which msg.format raises KeyError at the entry of an
\* Indent Scope (an indent call or a call of a decorated function) logs no
\* record and changes nothing else: the depth, the open spans, the open
\* scopes (so no block or function body starts), the handlers, the filters,
\* the level and _use_emme are as before.
C18_FailedEntryChangesNothing ==
    /\ [][(exc = NoExc /\ exc' = "KeyError") =>
            /\ last'.op \in {"indent", "call"}
            /\ emitted' = <<>>
            /\ UNCHANGED <<depth, spans, stack, handlers, filters, level, use_emme>>]_vars
    /\ []((last.op \in {"indent", "call"} /\ exc = "KeyError") =>
            /\ emitted = <<>>
            /\ depth = NumIndent(stack)
            /\ Len(spans) = Len(SpanFrames)
            /\ stack # <<>> => Top.pc = "body")

C18_Witness ==
    /\ last.op = "indent"
    /\ exc = "KeyError"
    /\ use_emme
    /\ Len(stack) = 1
    /\ Top.kind = "indent" /\ Top.pc = "body" /\ Top.span
    /\ depth = 1
    /\ spans = <<Top.msg>>
    /\ emitted = <<>>

====
